---- MODULE Spec2Model ----
(***************************************************************************)
(* Model of FirmaAutomatizada1.1.py: DocumentSigner (validate_excel_file,  *)
(* load_excel_data, signature resolution, sign_pdf, sign_docx,             *)
(* process_documents) and the Excel handlers of DocumentSignerGUI.         *)
(*                                                                         *)
(* Text is a sequence of one-character strings; a file name is a sequence  *)
(* of tokens whose concatenation is the name ("temp_signature_" and the    *)
(* suffix such as ".pdf" are single tokens).  A path is [dir, name].  The  *)
(* file system fs is a function from the paths that exist to the content   *)
(* of the file.  A PDF page is the set of marker occurrences found on it   *)
(* with their rectangles, the images and the texts placed on it; a DOCX    *)
(* paragraph is its text and its inline pictures.                          *)
(*                                                                         *)
(* Spec      a batch run of process_documents, one step per loop iteration *)
(* SignSpec  direct calls of sign_pdf / sign_docx on one template          *)
(* NameSpec  the output file name computed for one pair                    *)
(* TableSpec validate_excel_file / load_excel_data on one Excel file       *)
(* GuiSpec   browse_excel, validate_excel and the Process button           *)
(*                                                                         *)
(* Failures of the environment (rendering, doc.save, os.remove, the        *)
(* progress callback, os.makedirs, to_excel) are injected                  *)
(* nondeterministically, at most MaxFaults of them in a behaviour.         *)
(***************************************************************************)
EXTENDS Integers, Sequences, FiniteSets, TLC

VARIABLES
    fs,                 \* the file system: existing path -> file content
    excel_data,         \* DocumentSigner.excel_data: None or the rows
    document_paths,     \* argument of process_documents
    output_folder,      \* argument of process_documents
    progress_callback,  \* TRUE iff a progress callback was passed
    pc,                 \* position inside process_documents
    doc_idx,            \* outer loop: index into document_paths
    row_idx,            \* inner loop: index into excel_data
    current_operation,  \* local counter of process_documents
    results,            \* the results dictionary
    progress_calls,     \* the calls made to progress_callback, in order
    writes,             \* history: the merges attempted, in order
    faults_left,        \* environment failures still to be injected
    call,               \* a direct call of an operation and its result
    naming,             \* a file-name computation and its result
    excel_path_var      \* the Excel path shown in the window

inputs == <<excel_data, document_paths, output_folder, progress_callback>>
vars == <<fs, excel_data, document_paths, output_folder, progress_callback,
          pc, doc_idx, row_idx, current_operation, results, progress_calls,
          writes, faults_left, call, naming, excel_path_var>>

None == [none |-> TRUE]

\* ---------------------------------------------------------------- bounds
MaxDocs == 2
MaxRecords == 2
MaxCalls == 2
MaxPages == 2
MaxPars == 2
MaxLen == 2
MaxFaults == 1

\* ------------------------------------------------------ program constants
font_size == 12
SigW == 150
SigH == 60
TextDy == 15
\* config['placeholders']: the spellings listed for each marker family
placeholders ==
    [firma |-> <<"<<firma>>", "<<signature>>", "[FIRMA]", "[SIGNATURE]">>,
     nombre |-> <<"<<nombre>>", "<<name>>", "[NOMBRE]", "[NAME]">>,
     dni |-> <<"<<dni>>", "<<nif>>", "[DNI]", "[NIF]">>]

\* ------------------------------------------------------------ text, paths
Str(s) == [t |-> "str", v |-> s]
NaN == [t |-> "float", v |-> <<>>]

Path(d, n) == [dir |-> d, name |-> n]
\* the empty string as a path
NoPath == Path("", <<>>)

\* Path(p).stem and Path(p).suffix.lower()
Lower(ext) ==
    CASE ext = ".PDF" -> ".pdf"
      [] ext = ".DOCX" -> ".docx"
      [] OTHER -> ext
stem(p) == SubSeq(p.name, 1, Len(p.name) - 1)
suffix_lower(p) == Lower(p.name[Len(p.name)])

Exists(f, p) == p \in DOMAIN f
WriteFile(f, p, c) == [q \in DOMAIN f \cup {p} |-> IF q = p THEN c ELSE f[q]]
RemoveFile(f, p) == [q \in DOMAIN f \ {p} |-> f[q]]

\* ------------------------------------------------- re.sub(r'[^\w\-_.]', '_')
AsciiWord == {"a", "b", "Z", "7", "_"}
UnicodeWord == {"é", "ñ"}
OtherChars == {" ", "/"}
Alphabet == AsciiWord \cup UnicodeWord \cup {"-", "."} \cup OtherChars

\* \w of a Python 3 str pattern matches Unicode word characters
IsWordChar(c) == c \in AsciiWord \cup UnicodeWord

safe_name_keep_space(s) ==
    [k \in 1..Len(s) |->
        IF IsWordChar(s[k]) \/ s[k] \in {"-", ".", " "} THEN s[k] ELSE "_"]
safe_name(s) ==
    [k \in 1..Len(s) |->
        IF IsWordChar(s[k]) \/ s[k] \in {"-", "_", "."} THEN s[k] ELSE "_"]

output_filename(doc_path, nombre) ==
    stem(doc_path) \o <<"_">> \o safe_name(nombre) \o <<suffix_lower(doc_path)>>

\* ------------------------------------------------ generate_signature_image
\* name.replace(' ', '_')
ReplaceSpaces(s) == [k \in 1..Len(s) |-> IF s[k] = " " THEN "_" ELSE s[k]]
TempPath(s) == Path("cwd", <<"temp_signature_">> \o ReplaceSpaces(s) \o <<".png">>)

\* signature_path.startswith("temp_signature_") on the path string: true
\* only of a relative path whose first characters are the prefix
StartsWithTemp(p) == p.dir = "cwd" /\ Len(p.name) > 0 /\ p.name[1] = "temp_signature_"

PngOf(s) == [kind |-> "png", of |-> s]

\* returns [path, fs]; path = None when rendering or saving failed.
\* A name that is not a str makes draw.textbbox raise; a name holding a
\* path separator makes img.save fail (no such directory).
generate_signature_image(f, nombre, fault) ==
    IF nombre.t # "str" \/ fault \/ (\E k \in 1..Len(nombre.v) : nombre.v[k] = "/")
    THEN [path |-> None, fs |-> f]
    ELSE [path |-> TempPath(nombre.v),
          fs |-> WriteFile(f, TempPath(nombre.v), PngOf(nombre.v))]

\* signature resolution of sign_pdf / sign_docx: the record's firma_imagen
\* when it is present and not null, a synthesized image otherwise
ResolveSignature_synthesize_when_missing(f, person, fault) ==
    IF person.firma_imagen # None /\ Exists(f, person.firma_imagen)
    THEN [path |-> person.firma_imagen, fs |-> f]
    ELSE generate_signature_image(f, person.nombre_completo, fault)
ResolveSignature(f, person, fault) ==
    IF person.firma_imagen # None
    THEN [path |-> person.firma_imagen, fs |-> f]
    ELSE generate_signature_image(f, person.nombre_completo, fault)

\* ------------------------------------------------------------- PDF pages
Rect(x0, y0, x1, y1) == [x0 |-> x0, y0 |-> y0, x1 |-> x1, y1 |-> y1]
Overlaps(r, s) == r.x0 < s.x1 /\ s.x0 < r.x1 /\ r.y0 < s.y1 /\ s.y0 < r.y1

\* page.search_for(needle): the rectangles of the occurrences
search_for(page, needle) == {m.rect : m \in {n \in page.lits : n.lit = needle}}

\* the area of a text drawn by page.insert_text((x, y), value, fontsize):
\* (x, y) is the start of the baseline, the glyphs rise above it
TextBox(x, y, value) ==
    Rect(x, y - font_size, x + Len(value) * (font_size \div 2), y)

\* page.apply_redactions(): every text whose area overlaps a redaction
\* annotation is removed, the pixels of an image under one are blanked
apply_redactions(lits, images, texts, redacts) ==
    [lits |-> {m \in lits : ~\E r \in redacts : Overlaps(r, m.rect)},
     images |-> {[im EXCEPT !.blanked =
                      im.blanked \/ \E r \in redacts : Overlaps(r, im.rect)]
                 : im \in images},
     texts |-> {t \in texts : ~\E r \in redacts : Overlaps(r, t.box)}]

FallbackRect(page) ==
    Rect(page.width - 200, page.height - 100, page.width - 50, page.height - 40)

\* the body of the page loop of sign_pdf
SignPage(page, person, signature_path) ==
    LET text_instances == search_for(page, "<<firma>>")
        name_instances == search_for(page, "<<nombre>>")
        dni_instances == search_for(page, "<<dni>>")
        images1 ==
            IF text_instances # {}
            THEN page.images \cup
                 {[rect |-> Rect(i.x0, i.y0, i.x0 + SigW, i.y0 + SigH),
                   src |-> signature_path, fallback |-> FALSE,
                   blanked |-> FALSE] : i \in text_instances}
            ELSE page.images \cup
                 {[rect |-> FallbackRect(page), src |-> signature_path,
                   fallback |-> TRUE, blanked |-> FALSE]}
        texts1 ==
            page.texts \cup
            {[value |-> person.nombre_completo.v,
              box |-> TextBox(i.x0, i.y0 + TextDy, person.nombre_completo.v)]
             : i \in name_instances} \cup
            {[value |-> person.dni, box |-> TextBox(i.x0, i.y0 + TextDy, person.dni)]
             : i \in dni_instances}
        red == apply_redactions(page.lits, images1, texts1,
                                text_instances \cup name_instances \cup dni_instances)
    IN  [page EXCEPT !.lits = red.lits, !.images = red.images, !.texts = red.texts]

\* sign_pdf: returns [ok, fs, sig]
\* fault: "gen" (rendering fails), "save" (doc.save raises), "remove"
\* (os.remove raises), "none"
sign_pdf(f, pdf_path, person, output_path, fault) ==
    IF ~Exists(f, pdf_path) \/ f[pdf_path].kind # "pdf"
    THEN [ok |-> FALSE, fs |-> f, sig |-> None]
    ELSE
    LET res == ResolveSignature(f, person, (fault = "gen"))
        sig == res.path
        f1 == res.fs
        doc == f[pdf_path]
    IN  IF sig = None \/ ~Exists(f1, sig)
        THEN [ok |-> FALSE, fs |-> f1, sig |-> sig]
        ELSE IF \/ f1[sig].kind # "png"
                \/ /\ person.nombre_completo.t # "str"
                   /\ \E k \in 1..Len(doc.pages) :
                        search_for(doc.pages[k], "<<nombre>>") # {}
                \/ (fault = "save")
                \/ output_path = pdf_path
        THEN [ok |-> FALSE, fs |-> f1, sig |-> sig]
        ELSE
        LET out == [kind |-> "pdf",
                    pages |-> [k \in 1..Len(doc.pages) |->
                                  SignPage(doc.pages[k], person, sig)]]
            f2 == WriteFile(f1, output_path, out)
            f3 == IF StartsWithTemp(sig) /\ fault # "remove"
                  THEN RemoveFile(f2, sig) ELSE f2
        IN  [ok |-> TRUE, fs |-> f3, sig |-> sig]

\* -------------------------------------------------------- DOCX paragraphs
RECURSIVE ReplaceAll(_, _, _)
\* str.replace on a text of tokens: every occurrence of lit becomes val
ReplaceAll(s, lit, val) ==
    IF s = <<>> THEN <<>>
    ELSE (IF Head(s) = lit THEN val ELSE <<Head(s)>>) \o ReplaceAll(Tail(s), lit, val)

Contains(s, lit) == \E k \in 1..Len(s) : s[k] = lit

\* the body of the paragraph loop of sign_docx; the three tests read
\* paragraph.text again after each change
SignParagraph(par, person, signature_path) ==
    LET p1 == IF Contains(par.text, "<<firma>>")
              THEN [text |-> <<>>, pictures |-> <<signature_path>>]
              ELSE par
        p2 == IF Contains(p1.text, "<<nombre>>")
              THEN [text |-> ReplaceAll(p1.text, "<<nombre>>", person.nombre_completo.v),
                    pictures |-> <<>>]
              ELSE p1
        p3 == IF Contains(p2.text, "<<dni>>")
              THEN [text |-> ReplaceAll(p2.text, "<<dni>>", person.dni),
                    pictures |-> <<>>]
              ELSE p2
    IN  p3

ParagraphHasMarker(par) ==
    \/ Contains(par.text, "<<firma>>")
    \/ Contains(par.text, "<<nombre>>")
    \/ Contains(par.text, "<<dni>>")

\* str(x) in an f-string: a float NaN prints as nan
Shown(nombre) == IF nombre.t = "str" THEN nombre.v ELSE <<"n", "a", "n">>

\* lines 316-327: the content appended when no paragraph held a marker
DocxFallbackNoText(person, signature_path) ==
    << [text |-> <<>>, pictures |-> <<>>],
       [text |-> <<>>, pictures |-> <<signature_path>>] >>
DocxFallback(person, signature_path) ==
    << [text |-> <<>>, pictures |-> <<>>],
       [text |-> <<>>, pictures |-> <<signature_path>>],
       [text |-> <<"Nombre: ">> \o Shown(person.nombre_completo), pictures |-> <<>>],
       [text |-> <<"DNI: ">> \o person.dni, pictures |-> <<>>] >>

\* sign_docx: returns [ok, fs, sig]
sign_docx(f, docx_path, person, output_path, fault) ==
    IF ~Exists(f, docx_path) \/ f[docx_path].kind # "docx"
    THEN [ok |-> FALSE, fs |-> f, sig |-> None]
    ELSE
    LET res == ResolveSignature(f, person, (fault = "gen"))
        sig == res.path
        f1 == res.fs
        doc == f[docx_path]
        n == Len(doc.paragraphs)
        placeholder_found == \E k \in 1..n : ParagraphHasMarker(doc.paragraphs[k])
    IN  IF sig = None \/ ~Exists(f1, sig)
        THEN [ok |-> FALSE, fs |-> f1, sig |-> sig]
        ELSE IF \/ /\ f1[sig].kind # "png"
                   /\ \/ ~placeholder_found
                      \/ \E k \in 1..n : Contains(doc.paragraphs[k].text, "<<firma>>")
                \/ /\ person.nombre_completo.t # "str"
                   /\ \E k \in 1..n :
                        /\ Contains(doc.paragraphs[k].text, "<<nombre>>")
                        /\ ~Contains(doc.paragraphs[k].text, "<<firma>>")
                \/ (fault = "save")
        THEN [ok |-> FALSE, fs |-> f1, sig |-> sig]
        ELSE
        LET signed == [k \in 1..n |-> SignParagraph(doc.paragraphs[k], person, sig)]
            out == [kind |-> "docx",
                    paragraphs |-> IF placeholder_found THEN signed
                                   ELSE signed \o DocxFallback(person, sig)]
            f2 == WriteFile(f1, output_path, out)
            f3 == IF StartsWithTemp(sig) /\ fault # "remove"
                  THEN RemoveFile(f2, sig) ELSE f2
        IN  [ok |-> TRUE, fs |-> f3, sig |-> sig]

\* ------------------------------------------------- the files of the model
MarkerRect(slot, h) == Rect(72, 100 * slot, 132, 100 * slot + h)
SlotOf(lit) ==
    CASE lit = "<<firma>>" -> 1
      [] lit = "<<nombre>>" -> 3
      [] lit = "<<dni>>" -> 5
      [] OTHER -> 7
PageWith(lits, h) ==
    [lits |-> {[lit |-> l, rect |-> MarkerRect(SlotOf(l), h)] : l \in lits},
     images |-> {}, texts |-> {}, width |-> 595, height |-> 842]
Pdf(pages) == [kind |-> "pdf", pages |-> pages]
Par(text) == [text |-> text, pictures |-> <<>>]
Docx(paragraphs) == [kind |-> "docx", paragraphs |-> paragraphs]
Junk == [kind |-> "junk"]

AllMarkers == {"<<firma>>", "<<nombre>>", "<<dni>>"}

T_d_pdf == Path("in", <<"d", ".pdf">>)
T_d_a_pdf == Path("in", <<"d", "_", "a", ".pdf">>)
T_d_PDF == Path("in", <<"d", ".PDF">>)
T_d_docx == Path("in", <<"d", ".docx">>)
T_d_rtf == Path("in", <<"d", ".rtf">>)
T_c_pdf == Path("in", <<"c", ".pdf">>)
T_m_pdf == Path("in", <<"m", ".pdf">>)
SigFile == Path("cwd", <<"sig", ".png">>)
SigTempNamed == Path("cwd", <<"temp_signature_", "x", ".png">>)
SigGone == Path("cwd", <<"gone", ".png">>)

\* the files present before a run; T_m_pdf and SigGone do not exist
InitFS ==
    [p \in {T_d_pdf, T_d_a_pdf, T_d_PDF, T_d_docx, T_d_rtf, T_c_pdf,
            SigFile, SigTempNamed} |->
        CASE p = T_d_pdf -> Pdf(<<PageWith(AllMarkers, 14)>>)
          [] p = T_d_a_pdf -> Pdf(<<PageWith({"<<firma>>"}, 14), PageWith({}, 14)>>)
          [] p = T_d_PDF -> Pdf(<<PageWith({}, 14)>>)
          [] p = T_d_docx -> Docx(<<Par(<<"Hola", "<<nombre>>">>), Par(<<"<<firma>>">>)>>)
          [] p = T_d_rtf -> Junk
          [] p = T_c_pdf -> Junk
          [] p = SigFile -> PngOf(<<"s">>)
          [] p = SigTempNamed -> PngOf(<<"x">>)]

\* the documents a run may be given, in the order they are listed
DocPool == <<T_d_pdf, T_d_a_pdf, T_d_docx, T_d_rtf, T_c_pdf, T_m_pdf>>

Person(nombre, dni, firma) ==
    [nombre_completo |-> nombre, dni |-> dni, firma_imagen |-> firma]
\* the rows a table may hold, in table order
RecordPool ==
    << Person(Str(<<"a">>), <<"1">>, None),
       Person(Str(<<"a">>), <<"2">>, None),
       Person(Str(<<"a", " ", "b">>), <<"3">>, SigFile),
       Person(Str(<<"a", "_", "b">>), <<"4">>, SigTempNamed),
       Person(NaN, <<"6">>, None) >>

SeqsUpTo(S, n) == UNION {[1..k -> S] : k \in 0..n}

\* the elements of pool at the indices of S, in pool order
Pick(pool, S) ==
    LET F[k \in 0..Len(pool)] ==
            IF k = 0 THEN <<>>
            ELSE IF k \in S THEN Append(F[k - 1], pool[k]) ELSE F[k - 1]
    IN  F[Len(pool)]
\* the lists of at most n distinct elements of pool, in pool order
ListsUpTo(pool, n) ==
    {Pick(pool, S) : S \in {T \in SUBSET (1..Len(pool)) : Cardinality(T) <= n}}

DataFrame(rows) == [rows |-> rows]

Faults == {"none", "gen", "save", "remove"}

NoCall == [op |-> "none"]
NoNaming == [op |-> "none"]

\* ------------------------------------------------------ process_documents
N == Len(document_paths)
M == IF excel_data = None THEN 0 ELSE Len(excel_data.rows)
total_operations == N * M

doc_path == document_paths[doc_idx]
doc_name == stem(doc_path)
doc_ext == suffix_lower(doc_path)
person == excel_data.rows[row_idx]
out_path == Path(output_folder, output_filename(doc_path, person.nombre_completo.v))

Detail(estado) ==
    [documento |-> doc_name, persona |-> person.nombre_completo,
     dni |-> person.dni,
     archivo_salida |-> output_filename(doc_path, person.nombre_completo.v),
     estado |-> estado]

\* lines 397-416: count the pair and append its entry
AddDetail_uncounted_failure(res, ok, d) ==
    IF ok
    THEN [res EXCEPT !.processed = @ + 1, !.details = Append(@, d)]
    ELSE [res EXCEPT !.details = Append(@, d)]
AddDetail_failure_dropped(res, ok, d) ==
    IF ok
    THEN [res EXCEPT !.processed = @ + 1, !.details = Append(@, d)]
    ELSE [res EXCEPT !.failed = @ + 1]
AddDetail_prepended(res, ok, d) ==
    IF ok
    THEN [res EXCEPT !.processed = @ + 1, !.details = <<d>> \o @]
    ELSE [res EXCEPT !.failed = @ + 1, !.details = <<d>> \o @]
AddDetail(res, ok, d) ==
    IF ok
    THEN [res EXCEPT !.processed = @ + 1, !.details = Append(@, d)]
    ELSE [res EXCEPT !.failed = @ + 1, !.details = Append(@, d)]

Init ==
    /\ fs = InitFS
    /\ excel_data \in {None} \cup {DataFrame(r) : r \in ListsUpTo(RecordPool, MaxRecords)}
    /\ document_paths \in ListsUpTo(DocPool, MaxDocs)
    /\ output_folder \in {"out", "in"}
    /\ progress_callback \in BOOLEAN
    /\ pc = "start"
    /\ doc_idx = 1
    /\ row_idx = 1
    /\ current_operation = 0
    /\ results = None
    /\ progress_calls = <<>>
    /\ writes = <<>>
    /\ faults_left = MaxFaults
    /\ call = NoCall
    /\ excel_path_var = NoPath
    /\ naming = NoNaming

\* lines 349-350: no table loaded
ReturnNoData ==
    /\ pc = "start"
    /\ excel_data = None
    /\ results' = [success |-> FALSE, message |-> "No hay datos Excel cargados"]
    /\ pc' = "done"
    /\ UNCHANGED <<fs, inputs, doc_idx, row_idx, current_operation,
                   progress_calls, writes, faults_left, call, naming,
                   excel_path_var>>

\* lines 352-364
Start ==
    /\ pc = "start"
    /\ excel_data # None
    /\ results' = [success |-> TRUE, processed |-> 0, failed |-> 0,
                   details |-> <<>>, log_file |-> None]
    /\ current_operation' = 0
    /\ doc_idx' = 1
    /\ pc' = "doc"
    /\ UNCHANGED <<fs, inputs, row_idx, progress_calls, writes, faults_left,
                   call, naming, excel_path_var>>

\* line 361: os.makedirs raises (the folder cannot be created)
MakedirsRaises ==
    /\ pc = "start"
    /\ excel_data # None
    /\ faults_left > 0
    /\ faults_left' = faults_left - 1
    /\ pc' = "raised_makedirs"
    /\ UNCHANGED <<fs, inputs, doc_idx, row_idx, current_operation, results,
                   progress_calls, writes, call, naming, excel_path_var>>

\* line 367: the outer loop is exhausted
DocsDone ==
    /\ pc = "doc"
    /\ doc_idx > N
    /\ pc' = "report"
    /\ UNCHANGED <<fs, inputs, doc_idx, row_idx, current_operation, results,
                   progress_calls, writes, faults_left, call, naming,
                   excel_path_var>>

\* lines 368-369
DocMissing ==
    /\ pc = "doc"
    /\ doc_idx <= N
    /\ ~Exists(fs, doc_path)
    /\ doc_idx' = doc_idx + 1
    /\ UNCHANGED <<fs, inputs, pc, row_idx, current_operation, results,
                   progress_calls, writes, faults_left, call, naming,
                   excel_path_var>>

\* lines 371-374
DocEnter ==
    /\ pc = "doc"
    /\ doc_idx <= N
    /\ Exists(fs, doc_path)
    /\ row_idx' = 1
    /\ pc' = "row"
    /\ UNCHANGED <<fs, inputs, doc_idx, current_operation, results,
                   progress_calls, writes, faults_left, call, naming,
                   excel_path_var>>

\* line 374: the inner loop is exhausted
RowsDone ==
    /\ pc = "row"
    /\ row_idx > M
    /\ doc_idx' = doc_idx + 1
    /\ pc' = "doc"
    /\ UNCHANGED <<fs, inputs, row_idx, current_operation, results,
                   progress_calls, writes, faults_left, call, naming,
                   excel_path_var>>

\* lines 378-380: the call made to the callback for the current pair
Progress == [op |-> current_operation + 1, total |-> total_operations,
             doc |-> doc_idx, row |-> row_idx]
CallsAfter == IF progress_callback THEN Append(progress_calls, Progress)
              ELSE progress_calls

\* lines 375-380: the progress callback raises
PairCallbackRaises ==
    /\ pc = "row"
    /\ row_idx <= M
    /\ progress_callback
    /\ faults_left > 0
    /\ faults_left' = faults_left - 1
    /\ current_operation' = current_operation + 1
    /\ progress_calls' = CallsAfter
    /\ pc' = "raised_pair"
    /\ UNCHANGED <<fs, inputs, doc_idx, row_idx, results, writes, call, naming,
                   excel_path_var>>

\* line 383: re.sub raises TypeError on a nombre_completo that is not a str
PairNamingRaises ==
    /\ pc = "row"
    /\ row_idx <= M
    /\ person.nombre_completo.t # "str"
    /\ current_operation' = current_operation + 1
    /\ progress_calls' = CallsAfter
    /\ pc' = "raised_pair"
    /\ UNCHANGED <<fs, inputs, doc_idx, row_idx, results, writes, faults_left,
                   call, naming, excel_path_var>>

\* lines 375-395 for a document that is neither .pdf nor .docx
PairUnsupported ==
    /\ pc = "row"
    /\ row_idx <= M
    /\ person.nombre_completo.t = "str"
    /\ doc_ext \notin {".pdf", ".docx"}
    /\ current_operation' = current_operation + 1
    /\ progress_calls' = CallsAfter
    /\ row_idx' = row_idx + 1
    /\ UNCHANGED <<fs, inputs, pc, doc_idx, results, writes, faults_left,
                   call, naming, excel_path_var>>

\* lines 375-416 for a .pdf or .docx document
PairMerge ==
    /\ pc = "row"
    /\ row_idx <= M
    /\ person.nombre_completo.t = "str"
    /\ doc_ext \in {".pdf", ".docx"}
    /\ \E fault \in Faults :
        LET r == IF doc_ext = ".pdf"
                 THEN sign_pdf(fs, doc_path, person, out_path, fault)
                 ELSE sign_docx(fs, doc_path, person, out_path, fault)
        IN  /\ fault # "none" => faults_left > 0
            /\ faults_left' = IF fault = "none" THEN faults_left ELSE faults_left - 1
            /\ fs' = r.fs
            /\ results' = AddDetail(results, r.ok, Detail(IF r.ok THEN "Exito" ELSE "Error"))
            /\ writes' = Append(writes, [doc |-> doc_idx, row |-> row_idx,
                                         path |-> out_path, ok |-> r.ok,
                                         sig |-> r.sig])
    /\ current_operation' = current_operation + 1
    /\ progress_calls' = CallsAfter
    /\ row_idx' = row_idx + 1
    /\ UNCHANGED <<inputs, pc, doc_idx, call, naming, excel_path_var>>

ReportPath == Path(output_folder, <<"reporte_firmas_", "timestamp", ".xlsx">>)

\* lines 419-426 with at least one detail
ReportWrite_first_entry_only ==
    /\ pc = "report"
    /\ results.details # <<>>
    /\ fs' = WriteFile(fs, ReportPath, [kind |-> "xlsx", rows |-> <<results.details[1]>>])
    /\ results' = [results EXCEPT !.log_file = ReportPath]
    /\ pc' = "done"
    /\ UNCHANGED <<inputs, doc_idx, row_idx, current_operation, progress_calls,
                   writes, faults_left, call, naming, excel_path_var>>
ReportWrite ==
    /\ pc = "report"
    /\ results.details # <<>>
    /\ fs' = WriteFile(fs, ReportPath, [kind |-> "xlsx", rows |-> results.details])
    /\ results' = [results EXCEPT !.log_file = ReportPath]
    /\ pc' = "done"
    /\ UNCHANGED <<inputs, doc_idx, row_idx, current_operation, progress_calls,
                   writes, faults_left, call, naming, excel_path_var>>

\* line 422: to_excel raises (the report cannot be written)
ReportRaises ==
    /\ pc = "report"
    /\ results.details # <<>>
    /\ faults_left > 0
    /\ faults_left' = faults_left - 1
    /\ pc' = "raised_report"
    /\ UNCHANGED <<fs, inputs, doc_idx, row_idx, current_operation, results,
                   progress_calls, writes, call, naming, excel_path_var>>

\* lines 419, 425-426 with no detail
ReportNone ==
    /\ pc = "report"
    /\ results.details = <<>>
    /\ pc' = "done"
    /\ UNCHANGED <<fs, inputs, doc_idx, row_idx, current_operation, results,
                   progress_calls, writes, faults_left, call, naming,
                   excel_path_var>>

Next ==
    \/ ReturnNoData
    \/ Start
    \/ MakedirsRaises
    \/ DocsDone
    \/ DocMissing
    \/ DocEnter
    \/ RowsDone
    \/ PairCallbackRaises
    \/ PairNamingRaises
    \/ PairUnsupported
    \/ PairMerge
    \/ ReportWrite
    \/ ReportRaises
    \/ ReportNone

Spec == Init /\ [][Next]_vars

\* ------------------------------------------------------------------------
\* Properties of a batch run (specification Spec)
\* ------------------------------------------------------------------------
Returned == pc = "done" /\ excel_data # None
Supported(p) == suffix_lower(p) \in {".pdf", ".docx"}
DocIdx == 1..N
RowIdx == 1..M
UnsupportedDocs == {i \in DocIdx : ~Supported(document_paths[i])}
\* the pairs the loop reaches a merge for: the document exists and is a
\* .pdf or a .docx
AttemptedPairs ==
    {i \in DocIdx : Exists(fs, document_paths[i]) /\ Supported(document_paths[i])}
        \X RowIdx
WrittenPairs == {<<writes[k].doc, writes[k].row>> : k \in 1..Len(writes)}

Synthesized(k) ==
    /\ excel_data.rows[writes[k].row].firma_imagen = None
    /\ writes[k].sig # None
C3_AsStated ==
    \A k \in 1..Len(writes) : Synthesized(k) => ~Exists(fs, writes[k].sig)

\* C4 as stated: a record's existing firma_imagen file is the signature of
\* each of its merges and still exists after them, whatever its name.
C4_AsStated ==
    \A k \in 1..Len(writes) :
        LET firma == excel_data.rows[writes[k].row].firma_imagen
        IN  (firma # None /\ Exists(InitFS, firma)) =>
                /\ writes[k].sig = firma
                /\ Exists(fs, firma)

\* C5 as stated: two distinct pairs that are both merged successfully never
\* write the same output path.
C5_AsStated ==
    \A k1, k2 \in 1..Len(writes) :
        (k1 # k2 /\ writes[k1].ok /\ writes[k2].ok) => writes[k1].path # writes[k2].path

\* C6 as stated: no output path written by a run is the path of a template of
\* the input list.
C6_AsStated ==
    \A k \in 1..Len(writes) :
        writes[k].ok => \A i \in DocIdx : writes[k].path # document_paths[i]

\* C11: the entries of results['details'] and the calls of sign_pdf /
\* sign_docx occur in cross-product order: every pair of document i comes
\* before any pair of document i+1, and within one document the records come
\* in table row order; the k-th entry is the entry of the k-th call.
InLoop == excel_data # None /\ pc \notin {"start", "raised_makedirs"}
PairBefore(a, b) == a.doc < b.doc \/ (a.doc = b.doc /\ a.row < b.row)
C11_CrossProductOrder ==
    InLoop =>
        /\ Len(results.details) = Len(writes)
        /\ \A k1, k2 \in 1..Len(writes) :
              k1 < k2 => PairBefore(writes[k1], writes[k2])
        /\ \A k \in 1..Len(writes) :
              /\ results.details[k].documento = stem(document_paths[writes[k].doc])
              /\ results.details[k].persona =
                     excel_data.rows[writes[k].row].nombre_completo
              /\ results.details[k].dni = excel_data.rows[writes[k].row].dni

C11_Witness ==
    /\ Returned
    /\ Len(results.details) = 4
    /\ writes[1].doc = writes[2].doc
    /\ writes[2].doc < writes[3].doc
    /\ writes[1].row < writes[2].row
    /\ results.details[1].dni # results.details[2].dni

\* C14: when process_documents returns, results['log_file'] is the path of a
\* written report file if and only if details is non-empty; the report holds
\* the whole details list; when no pair was attempted log_file is None and no
\* report file is written.
C14_Report ==
    Returned =>
        /\ (results.log_file # None) <=> (results.details # <<>>)
        /\ results.details # <<>> =>
              /\ results.log_file = ReportPath
              /\ Exists(fs, ReportPath)
              /\ fs[ReportPath].kind = "xlsx"
              /\ fs[ReportPath].rows = results.details
        /\ results.details = <<>> =>
              /\ results.log_file = None
              /\ ~Exists(fs, ReportPath)

C14_Witness ==
    /\ Returned
    /\ Len(results.details) >= 2
    /\ results.log_file = ReportPath
    /\ fs[ReportPath].rows = results.details

\* the percentage passed to the callback by its k-th call, as the fraction
\* op / total
Pct(k) == progress_calls[k]

\* C18 as stated: in a run with a progress callback the callback is invoked
\* exactly once per pair with the percentage of pairs completed; the values
\* are strictly increasing, never exceed 100, and the last one is 100 when the
\* run ends, also when a listed document does not exist or has an unsupported
\* extension.
C18_AsStated ==
    (Returned /\ progress_callback) =>
        /\ Len(progress_calls) = N * M
        /\ \A k \in 1..Len(progress_calls) :
              /\ Pct(k).total = N * M
              /\ Pct(k).op <= Pct(k).total
              /\ k > 1 => Pct(k - 1).op < Pct(k).op
        /\ N * M > 0 =>
              /\ progress_calls # <<>>
              /\ Pct(Len(progress_calls)).op = Pct(Len(progress_calls)).total

\* ------------------------------------------------------------------------
\* Direct calls of sign_pdf / sign_docx on one template (specification
\* SignSpec)
\* ------------------------------------------------------------------------
MarkerHeights == {10, 14}
T_t_pdf == Path("in", <<"t", ".pdf">>)
T_t_docx == Path("in", <<"t", ".docx">>)

SeqsFromTo(S, lo, hi) == UNION {[1..k -> S] : k \in lo..hi}

PdfPages ==
    {PageWith(S, 14) : S \in SUBSET AllMarkers}
        \cup {PageWith(AllMarkers, h) : h \in MarkerHeights}
        \cup {PageWith({"[FIRMA]"}, 14)}
PdfTemplates == {Pdf(pages) : pages \in SeqsFromTo(PdfPages, 1, MaxPages)}

ParTexts ==
    { <<"Hola">>, <<"<<firma>>">>, <<"Sr.", "<<nombre>>">>, <<"<<dni>>">>,
      <<"<<firma>>", "<<nombre>>">>, <<"<<nombre>>", "<<dni>>">>, <<"[NOMBRE]">> }
DocxTemplates == {Docx(pars) : pars \in SeqsFromTo({Par(t) : t \in ParTexts}, 0, MaxPars)}

SigFS == [p \in {SigFile, SigTempNamed} |->
            IF p = SigFile THEN PngOf(<<"s">>) ELSE PngOf(<<"x">>)]

SignRecords ==
    {RecordPool[k] : k \in 1..Len(RecordPool)}
        \cup {Person(Str(<<"é">>), <<"5">>, SigGone)}

InitSign ==
    /\ document_paths \in {<<T_t_pdf>>, <<T_t_docx>>}
    /\ fs \in IF document_paths = <<T_t_pdf>>
              THEN {WriteFile(SigFS, T_t_pdf, t) : t \in PdfTemplates}
              ELSE {WriteFile(SigFS, T_t_docx, t) : t \in DocxTemplates}
    /\ excel_data \in {DataFrame(<<r>>) : r \in SignRecords}
    /\ output_folder = "out"
    /\ progress_callback = FALSE
    /\ pc = "sign"
    /\ doc_idx = 1
    /\ row_idx = 1
    /\ current_operation = 0
    /\ results = None
    /\ progress_calls = <<>>
    /\ writes = <<>>
    /\ faults_left = MaxFaults
    /\ call = NoCall
    /\ excel_path_var = NoPath
    /\ naming = NoNaming

SignOutPath == Path(output_folder, stem(doc_path) \o <<"_", "o", suffix_lower(doc_path)>>)

CallRecord(op, r) ==
    [op |-> op, ok |-> r.ok, sig |-> r.sig, person |-> person,
     template |-> fs[doc_path],
     output |-> IF r.ok THEN r.fs[SignOutPath] ELSE None]

\* one call sign_pdf(doc_path, person, output_path), lines 195-277
CallSignPdf ==
    /\ pc = "sign"
    /\ Len(writes) < MaxCalls
    /\ doc_ext = ".pdf"
    /\ \E fault \in Faults :
        LET r == sign_pdf(fs, doc_path, person, SignOutPath, fault)
        IN  /\ fault # "none" => faults_left > 0
            /\ faults_left' = IF fault = "none" THEN faults_left ELSE faults_left - 1
            /\ fs' = r.fs
            /\ call' = CallRecord("sign_pdf", r)
            /\ writes' = Append(writes, [doc |-> doc_idx, row |-> row_idx,
                                         path |-> SignOutPath, ok |-> r.ok,
                                         sig |-> r.sig])
    /\ UNCHANGED <<inputs, pc, doc_idx, row_idx, current_operation, results,
                   progress_calls, naming, excel_path_var>>

\* one call sign_docx(doc_path, person, output_path), lines 279-344
CallSignDocx ==
    /\ pc = "sign"
    /\ Len(writes) < MaxCalls
    /\ doc_ext = ".docx"
    /\ \E fault \in Faults :
        LET r == sign_docx(fs, doc_path, person, SignOutPath, fault)
        IN  /\ fault # "none" => faults_left > 0
            /\ faults_left' = IF fault = "none" THEN faults_left ELSE faults_left - 1
            /\ fs' = r.fs
            /\ call' = CallRecord("sign_docx", r)
            /\ writes' = Append(writes, [doc |-> doc_idx, row |-> row_idx,
                                         path |-> SignOutPath, ok |-> r.ok,
                                         sig |-> r.sig])
    /\ UNCHANGED <<inputs, pc, doc_idx, row_idx, current_operation, results,
                   progress_calls, naming, excel_path_var>>

NextSign == CallSignPdf \/ CallSignDocx

SignSpec == InitSign /\ [][NextSign]_vars

SignedPdf == call.op = "sign_pdf" /\ call.ok
SignedDocx == call.op = "sign_docx" /\ call.ok
PageIdx == 1..Len(call.template.pages)
HasLit(page, lit) == search_for(page, lit) # {}

\* C7 as stated: sign_pdf applies the bottom-right fallback placement only
\* when no page of the document holds the signature marker.
C7_AsStated ==
    SignedPdf =>
        \A k \in PageIdx :
            (\E im \in call.output.pages[k].images : im.fallback) =>
                ~\E j \in PageIdx : HasLit(call.template.pages[j], "<<firma>>")

\* the template holds none of the markers sign_pdf / sign_docx look for
NoMarkers ==
    IF call.op = "sign_pdf"
    THEN \A k \in PageIdx : \A lit \in AllMarkers : ~HasLit(call.template.pages[k], lit)
    ELSE \A k \in 1..Len(call.template.paragraphs) :
            ~ParagraphHasMarker(call.template.paragraphs[k])

ContainsSeq(text, v) ==
    \E i \in 0..(Len(text) - Len(v)) : SubSeq(text, i + 1, i + Len(v)) = v

DocxHasNameIdImage ==
    LET ps == call.output.paragraphs
    IN  /\ \E k \in 1..Len(ps) : ContainsSeq(ps[k].text, Shown(call.person.nombre_completo))
        /\ \E k \in 1..Len(ps) : ContainsSeq(ps[k].text, call.person.dni)
        /\ \E k \in 1..Len(ps) : \E n \in 1..Len(ps[k].pictures) :
                                    ps[k].pictures[n] = call.sig
PdfHasNameIdImage ==
    LET ps == call.output.pages
    IN  /\ \E k \in 1..Len(ps) : \E t \in ps[k].texts :
                                    t.value = call.person.nombre_completo.v
        /\ \E k \in 1..Len(ps) : \E t \in ps[k].texts : t.value = call.person.dni
        /\ \E k \in 1..Len(ps) : \E im \in ps[k].images : im.src = call.sig

\* C8 as stated: for a template without markers a successful sign_pdf and a
\* successful sign_docx each give an output holding the signer's full name,
\* the signer's ID and an embedded signature image.
C8_AsStated ==
    /\ (SignedPdf /\ NoMarkers) => PdfHasNameIdImage
    /\ (SignedDocx /\ NoMarkers) => DocxHasNameIdImage

\* C8 amended: for a template without markers a successful sign_docx gives an
\* output holding the full name, the ID and the signature image; a successful
\* sign_pdf gives an output with the signature image at the bottom right of
\* every page and adds no text, so neither the name nor the ID.
C8_Fallback ==
    /\ (SignedDocx /\ NoMarkers) => DocxHasNameIdImage
    /\ (SignedPdf /\ NoMarkers) =>
          \A k \in PageIdx :
              /\ \E im \in call.output.pages[k].images :
                    /\ im.src = call.sig
                    /\ im.fallback
                    /\ im.rect = FallbackRect(call.template.pages[k])
              /\ call.output.pages[k].texts = call.template.pages[k].texts

C8_Witness ==
    /\ SignedPdf
    /\ NoMarkers
    /\ Len(call.output.pages) > 1
    /\ call.person.firma_imagen = None

\* C9 as stated: after a successful sign_pdf a page that held <<firma>>,
\* <<nombre>> and <<dni>> holds none of the three literals and holds, at
\* each marker's place, the signature image, the full name and the ID.
C9_AsStated ==
    SignedPdf =>
        \A k \in PageIdx :
            LET tp == call.template.pages[k]
                op == call.output.pages[k]
            IN  (\A lit \in AllMarkers : HasLit(tp, lit)) =>
                    /\ \A lit \in AllMarkers : ~HasLit(op, lit)
                    /\ \A i \in search_for(tp, "<<firma>>") :
                          \E im \in op.images :
                              im.src = call.sig /\ im.rect.x0 = i.x0 /\ im.rect.y0 = i.y0
                    /\ \A i \in search_for(tp, "<<nombre>>") :
                          \E t \in op.texts :
                              t.value = call.person.nombre_completo.v /\ t.box.x0 = i.x0
                    /\ \A i \in search_for(tp, "<<dni>>") :
                          \E t \in op.texts :
                              t.value = call.person.dni /\ t.box.x0 = i.x0

SignCalled == call.op \in {"sign_pdf", "sign_docx"}
\* the record's firma_imagen names a file that never existed
FirmaMissing == call.person.firma_imagen # None /\ call.person.firma_imagen \notin DOMAIN SigFS

\* C15 as stated: when the record's firma_imagen is set but its file does not
\* exist, the signature of the call is the one synthesized from the full
\* name, and the call fails on resolution only when synthesis gave no image.
C15_AsStated ==
    (SignCalled /\ FirmaMissing) =>
        /\ call.sig \in {None, TempPath(call.person.nombre_completo.v)}
        /\ (call.sig # None /\ faults_left = MaxFaults) => call.ok

\* C15 amended: a firma_imagen that is set is the signature path of the call,
\* with no fall-back: when its file does not exist the call returns False and
\* nothing is synthesized.  The signature is synthesized from the full name
\* only when firma_imagen is absent or null, and then the call fails on
\* resolution when synthesis returns no image.
C15_Resolution ==
    SignCalled =>
        /\ call.person.firma_imagen # None =>
              /\ call.sig = call.person.firma_imagen
              /\ call.ok => call.sig \in DOMAIN SigFS
        /\ FirmaMissing =>
              /\ ~call.ok
              /\ \A p \in DOMAIN fs : ~StartsWithTemp(p) \/ p \in DOMAIN SigFS
        /\ call.person.firma_imagen = None =>
              /\ call.sig = None => ~call.ok
              /\ (call.sig # None /\ call.person.nombre_completo.t = "str") =>
                    call.sig = TempPath(call.person.nombre_completo.v)

C15_Witness ==
    /\ SignCalled
    /\ call.person.firma_imagen = SigGone
    /\ call.sig = SigGone
    /\ ~call.ok
    /\ faults_left = MaxFaults

Spellings(family) == {placeholders[family][k] : k \in 1..Len(placeholders[family])}
ParIdx == 1..Len(call.template.paragraphs)

\* C16 as stated: every spelling listed for a marker family in
\* config['placeholders'] is recognized by sign_pdf and sign_docx and
\* substituted like the family's first spelling: after a successful call no
\* page keeps an occurrence of a listed spelling it had, and a paragraph that
\* held a spelling of the name family (and no signature marker) holds the
\* full name instead.
C16_AsStated ==
    /\ SignedPdf =>
          \A k \in PageIdx :
              \A family \in {"firma", "nombre", "dni"} :
                  \A lit \in Spellings(family) :
                      HasLit(call.template.pages[k], lit) =>
                          ~HasLit(call.output.pages[k], lit)
    /\ SignedDocx =>
          \A k \in ParIdx :
              \A lit \in Spellings("nombre") :
                  (/\ Contains(call.template.paragraphs[k].text, lit)
                   /\ ~Contains(call.template.paragraphs[k].text, "<<firma>>")) =>
                      /\ ~Contains(call.output.paragraphs[k].text, lit)
                      /\ ContainsSeq(call.output.paragraphs[k].text,
                                     call.person.nombre_completo.v)

\* C17 as stated: after a successful sign_docx every paragraph that held the
\* name marker holds the record's full name in its place, and likewise the
\* ID marker, whatever other markers the paragraph held (the signature marker
\* included); the other text of a paragraph holding name or ID markers is
\* preserved.
C17_AsStated ==
    SignedDocx =>
        \A k \in ParIdx :
            LET tp == call.template.paragraphs[k].text
                op == call.output.paragraphs[k].text
            IN  /\ Contains(tp, "<<nombre>>") =>
                      /\ ~Contains(op, "<<nombre>>")
                      /\ ContainsSeq(op, call.person.nombre_completo.v)
                /\ Contains(tp, "<<dni>>") =>
                      /\ ~Contains(op, "<<dni>>")
                      /\ ContainsSeq(op, call.person.dni)
                /\ (/\ Contains(tp, "<<nombre>>") \/ Contains(tp, "<<dni>>")
                    /\ ~Contains(tp, "<<firma>>")) =>
                      \A i \in 1..Len(tp) : tp[i] \notin AllMarkers => Contains(op, tp[i])

\* ------------------------------------------------------------------------
\* The output file name of one pair (specification NameSpec)
\* ------------------------------------------------------------------------
NameDocs == {T_d_pdf, T_d_PDF, T_d_docx, T_d_a_pdf}

InitName ==
    /\ naming \in {[op |-> "input", doc |-> d, nombre |-> n] :
                      d \in NameDocs, n \in SeqsUpTo(Alphabet, MaxLen)}
    /\ fs = InitFS
    /\ excel_data = None
    /\ document_paths = <<>>
    /\ output_folder = "out"
    /\ progress_callback = FALSE
    /\ pc = "naming"
    /\ doc_idx = 1
    /\ row_idx = 1
    /\ current_operation = 0
    /\ results = None
    /\ progress_calls = <<>>
    /\ writes = <<>>
    /\ faults_left = 0
    /\ call = NoCall
    /\ excel_path_var = NoPath

\* lines 371-372 and 383-384 for one document and one nombre_completo
ComputeName ==
    /\ pc = "naming"
    /\ naming.op = "input"
    /\ naming' = [op |-> "named", doc |-> naming.doc, nombre |-> naming.nombre,
                  safe_name |-> safe_name(naming.nombre),
                  output_filename |-> output_filename(naming.doc, naming.nombre)]
    /\ UNCHANGED <<fs, inputs, pc, doc_idx, row_idx, current_operation, results,
                   progress_calls, writes, faults_left, call, excel_path_var>>

NextName == ComputeName

NameSpec == InitName /\ [][NextName]_vars

AsciiSafe == {"a", "b", "Z", "7", ".", "_", "-"}

\* C10 as stated: the token holds no character outside [A-Za-z0-9._-], every
\* other character of the name being replaced by '_', and the file name is
\* {document_stem}_{token}{document_extension}.
C10_AsStated ==
    naming.op = "named" =>
        /\ \A k \in 1..Len(naming.safe_name) : naming.safe_name[k] \in AsciiSafe
        /\ naming.output_filename =
              stem(naming.doc) \o <<"_">> \o naming.safe_name
                  \o <<naming.doc.name[Len(naming.doc.name)]>>

\* C10 amended: the token has the length of the name; every character that
\* is a letter of any alphabet (accented letters included), a digit, '_', '-'
\* or '.' is kept and every other character (space, path separator) is
\* replaced by '_'; the file name is {document_stem}_{token}{extension in
\* lower case}.
C10_Sanitized ==
    naming.op = "named" =>
        /\ Len(naming.safe_name) = Len(naming.nombre)
        /\ \A k \in 1..Len(naming.nombre) :
              naming.safe_name[k] =
                  (IF naming.nombre[k] \in {" ", "/"} THEN "_" ELSE naming.nombre[k])
        /\ naming.output_filename =
              stem(naming.doc) \o <<"_">> \o naming.safe_name
                  \o <<Lower(naming.doc.name[Len(naming.doc.name)])>>

C10_Witness ==
    /\ naming.op = "named"
    /\ \E k \in 1..Len(naming.nombre) : naming.nombre[k] = "é"
    /\ \E k \in 1..Len(naming.nombre) : naming.nombre[k] = " "
    /\ naming.doc = T_d_PDF

\* ------------------------------------------------------------------------
\* validate_excel_file and load_excel_data on one Excel file (specification
\* TableSpec).  A table is its set of column names and its rows; a row is a
\* function from the column names to cells; a cell is Str(text) or NaN, which
\* is what read_excel gives for an empty cell.
\* ------------------------------------------------------------------------
MaxRows == 2

Table(columns, rows) == [columns |-> columns, rows |-> rows]
Xlsx(columns, rows) == [kind |-> "xlsx", columns |-> columns, rows |-> rows]

\* pd.read_excel(file_path) succeeds
Readable(f, p) == Exists(f, p) /\ f[p].kind = "xlsx"

required_cols == <<"nombre", "dni">>
IsNull(cell) == cell = NaN

Message(msg, arg) == [msg |-> msg, arg |-> arg]
Ret(ok, message) == [ok |-> ok, message |-> message]

\* line 107
missing_cols(columns) == SelectSeq(required_cols, LAMBDA c : c \notin columns)
\* line 112: the rows with a null in a required column
empty_rows(rows) ==
    {k \in 1..Len(rows) : \E j \in 1..Len(required_cols) : IsNull(rows[k][required_cols[j]])}

\* lines 97-120
validate_excel_file_no_null_check(f, p) ==
    IF ~Readable(f, p)
    THEN Ret(FALSE, Message("Error al leer Excel", "e"))
    ELSE IF missing_cols(f[p].columns) # <<>>
    THEN Ret(FALSE, Message("Faltan columnas requeridas", missing_cols(f[p].columns)))
    ELSE Ret(TRUE, Message("Archivo valido", Len(f[p].rows)))
validate_excel_file(f, p) ==
    IF ~Readable(f, p)
    THEN Ret(FALSE, Message("Error al leer Excel", "e"))
    ELSE IF missing_cols(f[p].columns) # <<>>
    THEN Ret(FALSE, Message("Faltan columnas requeridas", missing_cols(f[p].columns)))
    ELSE IF empty_rows(f[p].rows) # {}
    THEN Ret(FALSE, Message("Hay filas con datos faltantes",
                            Cardinality(empty_rows(f[p].rows))))
    ELSE Ret(TRUE, Message("Archivo valido", Len(f[p].rows)))

RECURSIVE JoinSpace(_)
\* ' '.join(parts)
JoinSpace(parts) ==
    IF parts = <<>> THEN <<>>
    ELSE IF Len(parts) = 1 THEN parts[1]
    ELSE parts[1] \o <<" ">> \o JoinSpace(Tail(parts))

\* lines 128-132
name_cols(columns) ==
    <<"nombre">> \o (IF "apellido1" \in columns THEN <<"apellido1">> ELSE <<>>)
                 \o (IF "apellido2" \in columns THEN <<"apellido2">> ELSE <<>>)

\* lines 134-136: ' '.join(x.dropna().astype(str)) over the name columns
JoinedName(row, cols) ==
    LET cells == [k \in 1..Len(cols) |-> row[cols[k]]]
        kept == SelectSeq(cells, LAMBDA c : ~IsNull(c))
    IN  Str(JoinSpace([k \in 1..Len(kept) |-> kept[k].v]))

WithNombreCompleto(t) ==
    LET columns == t.columns \cup {"nombre_completo"}
    IN  Table(columns,
              [k \in 1..Len(t.rows) |->
                  [c \in columns |->
                      IF c = "nombre_completo"
                      THEN JoinedName(t.rows[k], name_cols(t.columns))
                      ELSE t.rows[k][c]]])

\* lines 122-144: the value returned and self.excel_data after the call.
\* read_excel raising leaves self.excel_data as it was (old); once it has
\* returned, self.excel_data is the table read, and self.excel_data[cols]
\* raises KeyError when the table has no 'nombre' column.
load_excel_data(f, p, old) ==
    IF ~Readable(f, p)
    THEN [ret |-> FALSE, excel_data |-> old]
    ELSE LET t == Table(f[p].columns, f[p].rows)
         IN  IF "nombre_completo" \in t.columns
             THEN [ret |-> TRUE, excel_data |-> t]
             ELSE IF "nombre" \notin t.columns
             THEN [ret |-> FALSE, excel_data |-> t]
             ELSE [ret |-> TRUE, excel_data |-> WithNombreCompleto(t)]

\* the tables of the model
ColumnSets ==
    {{"nombre", "dni"}, {"nombre", "dni", "apellido1"},
     {"nombre", "dni", "apellido2"}, {"nombre", "dni", "apellido1", "apellido2"},
     {"nombre", "dni", "apellido1", "nombre_completo"},
     {"nombre"}, {"dni"}, {"dni", "nombre_completo"}}
CellText(c) ==
    CASE c = "nombre" -> <<"a">>
      [] c = "apellido1" -> <<"b">>
      [] c = "apellido2" -> <<"Z">>
      [] c = "dni" -> <<"7">>
      [] OTHER -> <<"a", " ", "b">>
RowsOf(columns) ==
    {r \in [columns -> {Str(CellText(c)) : c \in columns} \cup {NaN}] :
        \A c \in columns : r[c] \in {Str(CellText(c)), NaN}}
Tables ==
    UNION {{Xlsx(columns, rows) : rows \in SeqsUpTo(RowsOf(columns), MaxRows)} :
           columns \in ColumnSets}

T_xlsx == Path("in", <<"personas", ".xlsx">>)
NoFiles == [q \in {} |-> Junk]
\* a table loaded by an earlier call
Loaded ==
    WithNombreCompleto(Table({"nombre", "dni"},
                             <<[c \in {"nombre", "dni"} |-> Str(CellText(c))]>>))

InitTable ==
    /\ fs \in {NoFiles} \cup {WriteFile(NoFiles, T_xlsx, c) : c \in Tables \cup {Junk}}
    /\ excel_data \in {None, Loaded}
    /\ document_paths = <<>>
    /\ output_folder = "out"
    /\ progress_callback = FALSE
    /\ pc = "table"
    /\ doc_idx = 1
    /\ row_idx = 1
    /\ current_operation = 0
    /\ results = None
    /\ progress_calls = <<>>
    /\ writes = <<>>
    /\ faults_left = 0
    /\ call = NoCall
    /\ excel_path_var = NoPath
    /\ naming = NoNaming

\* signer.validate_excel_file(T_xlsx)
CallValidate ==
    /\ pc = "table"
    /\ call.op = "none"
    /\ call' = [op |-> "validate_excel_file", ret |-> validate_excel_file(fs, T_xlsx)]
    /\ UNCHANGED <<fs, inputs, pc, doc_idx, row_idx, current_operation, results,
                   progress_calls, writes, faults_left, naming,
                   excel_path_var>>

\* signer.load_excel_data(T_xlsx)
CallLoad ==
    /\ pc = "table"
    /\ call.op # "load_excel_data"
    /\ LET r == load_excel_data(fs, T_xlsx, excel_data)
       IN  /\ excel_data' = r.excel_data
           /\ call' = [op |-> "load_excel_data", ret |-> r.ret, before |-> excel_data]
    /\ UNCHANGED <<fs, document_paths, output_folder, progress_callback, pc,
                   doc_idx, row_idx, current_operation, results, progress_calls,
                   writes, faults_left, naming, excel_path_var>>

NextTable == CallValidate \/ CallLoad

TableSpec == InitTable /\ [][NextTable]_vars

Validated == call.op = "validate_excel_file"
\* what is required of the file, stated on the file itself
HasRequired(f, p) == {"nombre", "dni"} \subseteq f[p].columns
IncompleteRows(f, p) ==
    {k \in 1..Len(f[p].rows) : f[p].rows[k].nombre = NaN \/ f[p].rows[k].dni = NaN}
Elems(q) == {q[k] : k \in 1..Len(q)}

\* C12: validate_excel_file always returns a (bool, message) pair; ok is true
\* exactly when the file is readable, has both required columns and no row is
\* null in either; a missing dni column gives ok = false with a message naming
\* 'dni'; incomplete rows give ok = false with their count; a read failure
\* gives ok = false with the error text.
C12_Validate ==
    Validated =>
        LET r == call.ret
        IN  /\ r.ok \in BOOLEAN
            /\ r.ok <=> (/\ Readable(fs, T_xlsx)
                         /\ HasRequired(fs, T_xlsx)
                         /\ IncompleteRows(fs, T_xlsx) = {})
            /\ (Readable(fs, T_xlsx) /\ "dni" \notin fs[T_xlsx].columns) =>
                  /\ ~r.ok
                  /\ r.message.msg = "Faltan columnas requeridas"
                  /\ "dni" \in Elems(r.message.arg)
            /\ (/\ Readable(fs, T_xlsx)
                /\ HasRequired(fs, T_xlsx)
                /\ IncompleteRows(fs, T_xlsx) # {}) =>
                  /\ ~r.ok
                  /\ r.message.msg = "Hay filas con datos faltantes"
                  /\ r.message.arg = Cardinality(IncompleteRows(fs, T_xlsx))
            /\ ~Readable(fs, T_xlsx) =>
                  /\ ~r.ok
                  /\ r.message.msg = "Error al leer Excel"

C12_Witness ==
    /\ Validated
    /\ ~call.ret.ok
    /\ call.ret.message.msg = "Hay filas con datos faltantes"
    /\ call.ret.message.arg = 1
    /\ Len(fs[T_xlsx].rows) = 2

LoadCalled == call.op = "load_excel_data"
PassesValidation == validate_excel_file(fs, T_xlsx).ok
\* the non-null values of nombre, apellido1, apellido2 of a row of the file,
\* in that order, joined by single spaces
NamePart(row, c) == IF c \in DOMAIN row /\ row[c] # NaN THEN <<row[c].v>> ELSE <<>>
ExpectedName(row) ==
    JoinSpace(NamePart(row, "nombre") \o NamePart(row, "apellido1")
                                      \o NamePart(row, "apellido2"))

\* C13 as stated: for every table that passes validation, load_excel_data
\* yields one record per row and each record's nombre_completo is the
\* non-null values of nombre, apellido1, apellido2 joined by single spaces and
\* non-empty, also when the table already has a nombre_completo column.
C13_AsStated ==
    (LoadCalled /\ PassesValidation) =>
        /\ call.ret
        /\ Len(excel_data.rows) = Len(fs[T_xlsx].rows)
        /\ \A k \in 1..Len(excel_data.rows) :
              /\ excel_data.rows[k].nombre_completo = Str(ExpectedName(fs[T_xlsx].rows[k]))
              /\ excel_data.rows[k].nombre_completo.v # <<>>

\* C20 as stated: when load_excel_data returns False, self.excel_data is what
\* it was before the call, so it is None or a table whose records all have
\* nombre_completo.
C20_AsStated ==
    (LoadCalled /\ ~call.ret) =>
        /\ excel_data = call.before
        /\ excel_data # None => "nombre_completo" \in excel_data.columns

\* ------------------------------------------------------------------------
\* The Excel handlers of the window (specification GuiSpec): browse_excel,
\* validate_excel and the Process button.  The run that the Process button
\* starts is the one of specification Spec; it reads signer.excel_data and
\* assigns neither it nor excel_path_var, so here the button's step ends with
\* the call of signer.process_documents, recorded with its arguments.
\* ------------------------------------------------------------------------
G_a == Path("in", <<"a", ".xlsx">>)
G_b == Path("in", <<"b", ".xlsx">>)
G_bad == Path("in", <<"bad", ".xlsx">>)
G_missing == Path("in", <<"missing", ".xlsx">>)
GuiPaths == {G_a, G_b, G_bad, G_missing}

FullRow(columns) == [c \in columns |-> Str(CellText(c))]
\* two valid tables with different records, and one without the dni column
GuiFS ==
    [p \in {G_a, G_b, G_bad} |->
        IF p = G_a THEN Xlsx({"nombre", "dni"}, <<FullRow({"nombre", "dni"})>>)
        ELSE IF p = G_b
        THEN Xlsx({"nombre", "dni", "apellido1"},
                  <<FullRow({"nombre", "dni", "apellido1"})>>)
        ELSE Xlsx({"nombre"}, <<FullRow({"nombre"})>>)]

InitGui ==
    /\ fs = GuiFS
    /\ excel_data = None
    /\ excel_path_var = NoPath
    /\ document_paths \in {<<>>, <<T_d_pdf>>}
    /\ output_folder \in {"", "out"}
    /\ progress_callback = TRUE
    /\ pc = "gui"
    /\ doc_idx = 1
    /\ row_idx = 1
    /\ current_operation = 0
    /\ results = None
    /\ progress_calls = <<>>
    /\ writes = <<>>
    /\ faults_left = 0
    /\ call = NoCall
    /\ naming = NoNaming

\* lines 588-595: the dialog returns a file name (a cancelled dialog changes
\* nothing)
browse_excel ==
    /\ pc = "gui"
    /\ \E filename \in GuiPaths : excel_path_var' = filename
    /\ UNCHANGED <<fs, inputs, pc, doc_idx, row_idx, current_operation, results,
                   progress_calls, writes, faults_left, call, naming>>

\* lines 597-616
validate_excel ==
    /\ pc = "gui"
    /\ IF excel_path_var = NoPath
       THEN /\ call' = [op |-> "validate_excel", shown |-> "showwarning",
                        excel_path |-> excel_path_var]
            /\ UNCHANGED excel_data
       ELSE LET v == validate_excel_file(fs, excel_path_var)
            IN  IF v.ok
                THEN /\ excel_data' = load_excel_data(fs, excel_path_var, excel_data).excel_data
                     /\ call' = [op |-> "validate_excel", shown |-> "lightgreen",
                                 excel_path |-> excel_path_var]
                ELSE /\ UNCHANGED excel_data
                     /\ call' = [op |-> "validate_excel", shown |-> "lightcoral",
                                 excel_path |-> excel_path_var]
    /\ UNCHANGED <<fs, document_paths, output_folder, progress_callback, pc,
                   doc_idx, row_idx, current_operation, results, progress_calls,
                   writes, faults_left, naming, excel_path_var>>

\* lines 695-747 of DocumentSignerGUI.process_documents: the three checks,
\* the confirmation dialog and the call of signer.process_documents
ProcessOutcome(response) ==
    IF excel_path_var = NoPath \/ excel_data = None THEN "showerror_excel"
    ELSE IF document_paths = <<>> THEN "showerror_docs"
    ELSE IF output_folder = "" THEN "showerror_output"
    ELSE IF ~response THEN "declined"
    ELSE "started"

gui_process_documents ==
    /\ pc = "gui"
    /\ \E response \in BOOLEAN :
          call' = [op |-> "process_documents", outcome |-> ProcessOutcome(response),
                   excel_path |-> excel_path_var, records |-> excel_data]
    /\ UNCHANGED <<fs, inputs, pc, doc_idx, row_idx, current_operation, results,
                   progress_calls, writes, faults_left, naming, excel_path_var>>

NextGui == browse_excel \/ validate_excel \/ gui_process_documents

GuiSpec == InitGui /\ [][NextGui]_vars

BatchStarted == call.op = "process_documents" /\ call.outcome = "started"

\* C19 as stated: whatever the sequence of browse_excel, validate_excel and
\* Process steps, a batch is only started with the records loaded from the
\* Excel file that is selected at that moment and that passes validation.
C19_AsStated ==
    BatchStarted =>
        /\ validate_excel_file(fs, call.excel_path).ok
        /\ call.records = load_excel_data(fs, call.excel_path, None).excel_data

====
